---- MODULE Spec2Model ----
(***************************************************************************)
(* Model of crates/core/src/types/token.rs: Amount, Denomination and       *)
(* DenominatedAmount over the 256-bit unsigned integer Uint.               *)
(*                                                                         *)
(* A Uint value is held at its full width.  TLC's integers are 32 bits, so *)
(* a magnitude is a sequence of decimal digits, least significant first,   *)
(* without leading zeros (zero is the empty sequence).  The Big* operators *)
(* are exact natural-number arithmetic on that representation; the Uint_*  *)
(* operators add the 256-bit ceiling on top of them.                       *)
(***************************************************************************)
EXTENDS Integers, Sequences, FiniteSets, TLC

VARIABLES self, den, str, op, arg, ret, pc, nsteps, balances, initial

vars == <<self, den, str, op, arg, ret, pc, nsteps, balances, initial>>

-----------------------------------------------------------------------------
(* Bounds of the exploration *)

\* small magnitudes 0..MaxSmall are part of every sample of amounts
MaxSmall == 3
\* small denominations 0..MaxSmallDenom are part of every sample of denominations
MaxSmallDenom == 3
\* number of in-place operations applied to one balance in one behaviour
MaxSteps == 2
\* the strings of up to MaxStrLen characters are parsed exhaustively
MaxStrLen == 3

-----------------------------------------------------------------------------
(* Exact arithmetic on digit sequences *)

BigZero == << >>
BigOne == <<1>>

Dig(a, i) == IF 1 <= i /\ i <= Len(a) THEN a[i] ELSE 0

MaxOf(m, n) == IF m < n THEN n ELSE m
MinOf(m, n) == IF m < n THEN m ELSE n

\* The scans below look at the upper half of their range first and at the
\* lower half only when the upper half does not decide: the evaluation is as
\* deep as the logarithm of the length.

RECURSIVE TopNonZero(_, _, _)
\* the highest position in lo..hi that holds a non-zero digit, or 0
TopNonZero(a, lo, hi) ==
    IF lo > hi THEN 0
    ELSE IF lo = hi THEN (IF a[lo] # 0 THEN lo ELSE 0)
    ELSE LET h == TopNonZero(a, ((lo + hi) \div 2) + 1, hi)
         IN  IF h # 0 THEN h ELSE TopNonZero(a, lo, (lo + hi) \div 2)

\* a without leading zeros
Norm(a) == SubSeq(a, 1, TopNonZero(a, 1, Len(a)))

RECURSIVE FromNat(_)
\* the digits of a machine-size number
FromNat(n) == IF n = 0 THEN << >> ELSE <<n % 10>> \o FromNat(n \div 10)

RECURSIVE CmpRange(_, _, _, _)
\* the comparison of the digits lo..hi of a and b, most significant first
CmpRange(a, b, lo, hi) ==
    IF lo > hi THEN 0
    ELSE IF lo = hi
    THEN (IF a[lo] < b[lo] THEN -1 ELSE IF a[lo] > b[lo] THEN 1 ELSE 0)
    ELSE IF SubSeq(a, ((lo + hi) \div 2) + 1, hi) = SubSeq(b, ((lo + hi) \div 2) + 1, hi)
    THEN CmpRange(a, b, lo, (lo + hi) \div 2)
    ELSE CmpRange(a, b, ((lo + hi) \div 2) + 1, hi)

\* -1, 0, 1 as a is below, equal to, above b
BigCmp(a, b) ==
    IF a = b THEN 0
    ELSE IF Len(a) < Len(b) THEN -1
    ELSE IF Len(a) > Len(b) THEN 1
    ELSE CmpRange(a, b, 1, Len(a))

BigLe(a, b) == BigCmp(a, b) <= 0
BigLt(a, b) == BigCmp(a, b) < 0

\* the digits of two adjoining ranges of columns and what they hand up,
\* from those of the lower range l and of the higher range h
RippleJoin(l, h) ==
    [z |-> l.z \o (IF l.zc = 0 THEN h.z ELSE h.o),
     zc |-> IF l.zc = 0 THEN h.zc ELSE h.oc,
     o |-> l.o \o (IF l.oc = 0 THEN h.z ELSE h.o),
     oc |-> IF l.oc = 0 THEN h.zc ELSE h.oc]

RECURSIVE RippleRange(_, _, _, _)
\* the digits of the columns lo..hi of v and what they hand up, without (z, zc)
\* and with (o, oc) one handed in from below; s is 1 for a carry and -1 for a
\* borrow, and a column with what is handed in stays within -10..19. Each
\* half is a bound value: it is worked out once.
RippleRange(v, s, lo, hi) ==
    IF lo = hi
    THEN [z |-> <<(v[lo] + 10) % 10>>,
          zc |-> IF v[lo] < 0 \/ v[lo] >= 10 THEN 1 ELSE 0,
          o |-> <<(v[lo] + s + 10) % 10>>,
          oc |-> IF v[lo] + s < 0 \/ v[lo] + s >= 10 THEN 1 ELSE 0]
    ELSE CHOOSE r \in { RippleJoin(l, h) :
                            l \in {RippleRange(v, s, lo, (lo + hi) \div 2)},
                            h \in {RippleRange(v, s, ((lo + hi) \div 2) + 1, hi)} } : TRUE

\* the number whose columns are v, each column at most 18
Resolve(v) ==
    IF v = << >> THEN << >>
    ELSE CHOOSE n \in { Norm(r.z \o <<r.zc>>) :
                            r \in { RippleRange(w, 1, 1, Len(w)) : w \in {v} } } : TRUE

\* one pass of carrying: a column keeps its last digit and hands the rest up
Pass(v) ==
    << >> \o [k \in 1..(Len(v) + 1) |->
                 (Dig(v, k) % 10) + (Dig(v, k - 1) \div 10)]

RECURSIVE Reduce(_)
\* the number whose columns are v, whatever their size
Reduce(v) ==
    IF \A k \in 1..Len(v) : v[k] <= 18 THEN Resolve(v) ELSE Reduce(Pass(v))

BigAdd(a, b) ==
    IF a = << >> THEN b
    ELSE IF b = << >> THEN a
    ELSE Resolve(<< >> \o [k \in 1..MaxOf(Len(a), Len(b)) |-> Dig(a, k) + Dig(b, k)])

\* a - b, for b <= a
BigSub(a, b) ==
    IF b = << >> THEN a
    ELSE CHOOSE n \in { Norm(RippleRange(w, -1, 1, Len(w)).z) :
                            w \in { << >> \o [k \in 1..Len(a) |-> a[k] - Dig(b, k)] } } : TRUE

\* a * d for a machine-size factor d
BigMulSmall(a, d) == Reduce(<< >> \o [k \in 1..Len(a) |-> a[k] * d])

\* a * 10^k
BigShift(a, k) == IF a = << >> THEN << >> ELSE [i \in 1..k |-> 0] \o a

RECURSIVE ColSum(_, _, _, _, _)
\* the sum of a[i] * b[k + 1 - i] for i in lo..hi
ColSum(a, b, k, lo, hi) ==
    IF lo > hi THEN 0
    ELSE IF lo = hi THEN a[lo] * b[k + 1 - lo]
    ELSE ColSum(a, b, k, lo, (lo + hi) \div 2)
             + ColSum(a, b, k, ((lo + hi) \div 2) + 1, hi)

BigMul(a, b) ==
    IF a = << >> \/ b = << >> THEN << >>
    ELSE Reduce(<< >> \o [k \in 1..(Len(a) + Len(b) - 1) |->
                    ColSum(a, b, k, MaxOf(1, k + 1 - Len(b)), MinOf(k, Len(a)))])

RECURSIVE QuotSearch(_, _, _, _)
\* the largest q in lo..hi with b * q <= cur, given that b * lo <= cur;
\* mult[q + 1] is b * q
QuotSearch(cur, mult, lo, hi) ==
    IF lo = hi THEN lo
    ELSE IF BigLe(mult[((lo + hi + 1) \div 2) + 1], cur)
    THEN QuotSearch(cur, mult, (lo + hi + 1) \div 2, hi)
    ELSE QuotSearch(cur, mult, lo, ((lo + hi + 1) \div 2) - 1)

\* the largest digit q with b * q <= cur, for cur < 10 * b
QuotDigit(cur, mult) == QuotSearch(cur, mult, 0, 9)

RECURSIVE DivRange(_, _, _, _, _)
\* long division by b > 0, given as its multiples mult[q + 1] = b * q, over
\* the digits hi down to lo of a, entered with the remainder r that the
\* digits above hi have left: the quotient digits of these positions and the
\* remainder after them.  The range is halved so that the evaluation stays
\* shallow.  A remainder is below b, hence never longer than b.
DivRange(a, mult, hi, lo, r) ==
    IF Len(r) > Len(mult[2]) THEN [q |-> << >>, r |-> r]
    ELSE IF hi = lo
    THEN LET cur == Norm(<<a[hi]>> \o r)
             qd == QuotDigit(cur, mult)
         IN  [q |-> <<qd>>, r |-> BigSub(cur, mult[qd + 1])]
    ELSE LET mid == (hi + lo) \div 2
             top == DivRange(a, mult, hi, mid + 1, r)
             bot == DivRange(a, mult, mid, lo, top.r)
         IN  [q |-> bot.q \o top.q, r |-> bot.r]

\* quotient q and remainder r of a by b > 0
BigDivMod(a, b) ==
    IF Len(a) < Len(b) THEN [q |-> BigZero, r |-> a]
    ELSE IF b = <<0, 1>>
    THEN \* by ten: the lowest digit is the remainder
         [q |-> SubSeq(a, 2, Len(a)), r |-> Norm(<<a[1]>>)]
    ELSE LET mult == << >> \o [q \in 1..10 |-> BigMulSmall(b, q - 1)]
             d == DivRange(a, mult, Len(a) - Len(b) + 1, 1,
                           Norm(SubSeq(a, Len(a) - Len(b) + 2, Len(a))))
         IN  [q |-> Norm(d.q), r |-> d.r]

BigDiv(a, b) == BigDivMod(a, b).q
BigMod(a, b) == BigDivMod(a, b).r

BigPow10(k) == BigShift(BigOne, k)

-----------------------------------------------------------------------------
(* Results *)

None == [some |-> FALSE]
Some(v) == [some |-> TRUE, val |-> v]

Ok(v) == [ok |-> TRUE, val |-> v]
\* an AmountParseError by the name of its variant
Err(e) == [ok |-> FALSE, err |-> e]
\* AmountParseError::ScaleTooLarge(got, max)
ErrScaleTooLarge(got, max) ==
    [ok |-> FALSE, err |-> "ScaleTooLarge", got |-> got, max |-> max]

\* the outcome of a call: it returns a value or it panics
Returned(v) == [panic |-> FALSE, val |-> v]
Panicked == [panic |-> TRUE]

-----------------------------------------------------------------------------
(* Uint: the 256-bit unsigned integer *)

\* u64::MAX = 18446744073709551615, and the base of the four words of a Uint
U64_MAX == <<5, 1, 6, 1, 5, 5, 9, 0, 7, 3, 7, 0, 4, 4, 7, 6, 4, 4, 8, 1>>
WordBase == BigAdd(U64_MAX, BigOne)
\* i64::MAX = 9223372036854775807
I64_MAX == <<7, 0, 8, 5, 7, 7, 4, 5, 8, 6, 3, 0, 2, 7, 3, 3, 2, 2, 9>>

\* the value of Uint([w0, w1, w2, w3]), least significant word first
FromWords(w0, w1, w2, w3) ==
    BigAdd(w0, BigMul(WordBase,
        BigAdd(w1, BigMul(WordBase,
            BigAdd(w2, BigMul(WordBase, w3))))))

MAX_VALUE == FromWords(U64_MAX, U64_MAX, U64_MAX, U64_MAX)
MAX_SIGNED_VALUE == FromWords(U64_MAX, U64_MAX, U64_MAX, I64_MAX)

IsUint(a) == BigLe(a, MAX_VALUE)

Uint_checked_add(a, b) ==
    LET sum == BigAdd(a, b) IN IF IsUint(sum) THEN Some(sum) ELSE None

Uint_checked_sub(a, b) ==
    IF BigLe(b, a) THEN Some(BigSub(a, b)) ELSE None

Uint_checked_mul(a, b) ==
    LET product == BigMul(a, b) IN IF IsUint(product) THEN Some(product) ELSE None

Uint_checked_div(a, b) ==
    IF b = BigZero THEN None ELSE Some(BigDiv(a, b))

\* 10^k for a one-byte exponent k, the only base the source uses
Uint_checked_pow10(k) ==
    IF IsUint(BigPow10(k)) THEN Some(BigPow10(k)) ELSE None

-----------------------------------------------------------------------------
(* Amount *)

Amount_max == MAX_VALUE
Amount_max_signed == MAX_SIGNED_VALUE
Amount_zero == BigZero

can_spend(raw, amount) == BigLe(amount, raw)

\* the amount is checked but not taken
spend_without_debit(raw, amount) ==
    LET result == Uint_checked_sub(raw, amount)
    IN  IF result.some THEN Returned(raw) ELSE Panicked

\* the new value of self, or a panic of the unwrap
spend(raw, amount) ==
    LET result == Uint_checked_sub(raw, amount)
    IN  IF result.some THEN Returned(result.val) ELSE Panicked

receive_signed_bound(raw, amount) ==
    LET result == Uint_checked_add(raw, amount)
    IN  IF result.some /\ BigLe(result.val, MAX_SIGNED_VALUE)
        THEN Returned(result.val)
        ELSE Panicked

receive(raw, amount) ==
    LET result == Uint_checked_add(raw, amount)
    IN  IF result.some THEN Returned(result.val) ELSE Panicked

Amount_checked_add_signed_bound(raw, amount) ==
    LET result == Uint_checked_add(raw, amount)
    IN  IF result.some /\ BigLe(result.val, MAX_SIGNED_VALUE) THEN Some(result.val) ELSE None

Amount_checked_add(raw, amount) ==
    LET result == Uint_checked_add(raw, amount)
    IN  IF result.some /\ BigLe(result.val, MAX_VALUE) THEN Some(result.val) ELSE None

Amount_checked_signed_add_unsigned_bound(raw, amount) ==
    LET result == Uint_checked_add(raw, amount)
    IN  IF result.some /\ BigLe(result.val, MAX_VALUE) THEN Some(result.val) ELSE None

Amount_checked_signed_add(raw, amount) ==
    LET result == Uint_checked_add(raw, amount)
    IN  IF result.some /\ BigLe(result.val, MAX_SIGNED_VALUE) THEN Some(result.val) ELSE None

Amount_checked_sub(raw, amount) == Uint_checked_sub(raw, amount)

Amount_checked_div(raw, amount) == Uint_checked_div(raw, amount)

Amount_checked_mul(raw, amount) == Uint_checked_mul(raw, amount)

from_uint(uint, denom) ==
    IF denom = 0 THEN Ok(uint)
    ELSE LET scaling == Uint_checked_pow10(denom)
         IN  IF scaling.some /\ Uint_checked_mul(scaling.val, uint).some
             THEN Ok(Uint_checked_mul(scaling.val, uint).val)
             ELSE Err("ConvertToDecimal")

-----------------------------------------------------------------------------
(* Uint: division and powers of ten as the ordering uses them *)

\* quotient and remainder; the divisors of the source are powers of ten
Uint_div_mod(a, b) == BigDivMod(a, b)

\* Uint::exp10 multiplies by ten n times with the panicking operator
Uint_exp10(n) ==
    IF IsUint(BigPow10(n)) THEN Returned(BigPow10(n)) ELSE Panicked

Uint_partial_cmp(a, b) ==
    IF BigCmp(a, b) < 0 THEN "Less"
    ELSE IF BigCmp(a, b) > 0 THEN "Greater"
    ELSE "Equal"

-----------------------------------------------------------------------------
(* DenominatedAmount: [amount, denom], the value amount * 10^-denom *)

DenominatedAmount_new(amount, denom) == [amount |-> amount, denom |-> denom]

\* the derived PartialEq
DenominatedAmount_eq(x, y) == x.amount = y.amount /\ x.denom = y.denom

increase_precision(x, denom) ==
    IF denom < x.denom THEN Err("PrecisionDecrease")
    ELSE LET scaling == Uint_checked_pow10(denom - x.denom)
         IN  IF scaling.some /\ Uint_checked_mul(x.amount, scaling.val).some
             THEN Ok([amount |-> Uint_checked_mul(x.amount, scaling.val).val,
                      denom |-> denom])
             ELSE Err("PrecisionOverflow")

scale(x, denom) ==
    LET raised == increase_precision(x, denom)
    IN  IF raised.ok THEN Ok(raised.val.amount) ELSE raised

\* div_ceil of the source: the quotient, plus one when there is a remainder
DivCeil(dm) == IF dm.r = BigZero THEN dm.q ELSE BigAdd(dm.q, BigOne)

\* the branch self.denom < other.denom, once 10^diff is there
CmpLowerSelf(x, y, e) ==
    LET dm == Uint_div_mod(y.amount, e)
        ord == Uint_partial_cmp(x.amount, DivCeil(dm))
    IN  IF ord = "Equal"
        THEN (IF dm.r = BigZero THEN "Equal" ELSE "Greater")
        ELSE ord

\* the other branch, once 10^diff is there
CmpHigherSelf(x, y, e) ==
    LET dm == Uint_div_mod(x.amount, e)
        ord == Uint_partial_cmp(DivCeil(dm), y.amount)
    IN  IF ord = "Equal"
        THEN (IF dm.r = BigZero THEN "Equal" ELSE "Less")
        ELSE ord

partial_cmp_truncating(x, y) ==
    IF x.denom < y.denom
    THEN (IF Uint_exp10(y.denom - x.denom).panic THEN Panicked
          ELSE Returned(Some(Uint_partial_cmp(x.amount,
                   Uint_div_mod(y.amount, Uint_exp10(y.denom - x.denom).val).q))))
    ELSE (IF Uint_exp10(x.denom - y.denom).panic THEN Panicked
          ELSE Returned(Some(Uint_partial_cmp(
                   Uint_div_mod(x.amount, Uint_exp10(x.denom - y.denom).val).q,
                   y.amount))))

\* the outcome of PartialOrd::partial_cmp: Some(ordering), or a panic
partial_cmp(x, y) ==
    IF x.denom < y.denom
    THEN (IF Uint_exp10(y.denom - x.denom).panic THEN Panicked
          ELSE Returned(Some(CmpLowerSelf(x, y, Uint_exp10(y.denom - x.denom).val))))
    ELSE (IF Uint_exp10(x.denom - y.denom).panic THEN Panicked
          ELSE Returned(Some(CmpHigherSelf(x, y, Uint_exp10(x.denom - y.denom).val))))

\* Ord::cmp unwraps partial_cmp
cmp(x, y) ==
    IF partial_cmp(x, y).panic THEN Panicked
    ELSE IF partial_cmp(x, y).val.some THEN Returned(partial_cmp(x, y).val.val)
    ELSE Panicked

-----------------------------------------------------------------------------
(* DenominatedAmount: the canonical form *)

\* one iteration of the loop of canonical on [value, denom]
canonical_step(st) ==
    LET dm == Uint_div_mod(st.value, FromNat(10))
    IN  IF dm.r = BigZero
        THEN [value |-> dm.q, denom |-> st.denom - 1]
        ELSE st

RECURSIVE canonical_loop(_, _)
\* n iterations of the loop: the first half of them, then the rest
canonical_loop(n, st) ==
    IF st.denom < 0 \/ n <= 0 THEN st
    ELSE IF n = 1 THEN canonical_step(st)
    ELSE LET first == canonical_loop(n \div 2, st)
         IN  canonical_loop(n - (n \div 2), first)

\* the loop body run once instead of self.denom times
canonical_once(x) ==
    LET st == canonical_loop(MinOf(x.denom, 1), [value |-> x.amount, denom |-> x.denom])
    IN  [amount |-> st.value, denom |-> st.denom]

canonical(x) ==
    LET st == canonical_loop(x.denom, [value |-> x.amount, denom |-> x.denom])
    IN  [amount |-> st.value, denom |-> st.denom]

-----------------------------------------------------------------------------
(* DenominatedAmount: checked arithmetic *)

\* u8::MAX, the largest denomination
U8_MAX == 255

\* u8::checked_add
u8_checked_add(a, b) == IF a + b <= U8_MAX THEN Some(a + b) ELSE None

\* the denominations are summed modulo 256
DenominatedAmount_checked_mul_wrapping(x, rhs) ==
    LET amount == Amount_checked_mul(x.amount, rhs.amount)
    IN  IF ~amount.some THEN None
        ELSE Some([amount |-> amount.val,
                   denom |-> (x.denom + rhs.denom) % (U8_MAX + 1)])

DenominatedAmount_checked_mul(x, rhs) ==
    LET amount == Amount_checked_mul(x.amount, rhs.amount)
        denom == u8_checked_add(x.denom, rhs.denom)
    IN  IF ~amount.some THEN None
        ELSE IF ~denom.some THEN None
        ELSE Some([amount |-> amount.val, denom |-> denom.val])

\* the first statement of checked_sub and checked_add: the operand of the
\* lower denomination is raised; None when increase_precision fails
raise_lower(x, rhs) ==
    IF x.denom < rhs.denom
    THEN LET raised == increase_precision(x, rhs.denom)
         IN  IF raised.ok THEN Some([lhs |-> raised.val, rhs |-> rhs]) ELSE None
    ELSE LET raised == increase_precision(rhs, x.denom)
         IN  IF raised.ok THEN Some([lhs |-> x, rhs |-> raised.val]) ELSE None

DenominatedAmount_checked_sub(x, rhs) ==
    LET both == raise_lower(x, rhs)
    IN  IF ~both.some THEN None
        ELSE LET amount == Amount_checked_sub(both.val.lhs.amount, both.val.rhs.amount)
             IN  IF ~amount.some THEN None
                 ELSE Some([amount |-> amount.val, denom |-> both.val.lhs.denom])

\* the mantissas are added as they are, without the raise
DenominatedAmount_checked_add_unaligned(x, rhs) ==
    LET amount == Amount_checked_add(x.amount, rhs.amount)
    IN  IF ~amount.some THEN None
        ELSE Some([amount |-> amount.val, denom |-> MaxOf(x.denom, rhs.denom)])

DenominatedAmount_checked_add(x, rhs) ==
    LET both == raise_lower(x, rhs)
    IN  IF ~both.some THEN None
        ELSE LET amount == Amount_checked_add(both.val.lhs.amount, both.val.rhs.amount)
             IN  IF ~amount.some THEN None
                 ELSE Some([amount |-> amount.val, denom |-> both.val.lhs.denom])

-----------------------------------------------------------------------------
(* Strings: sequences of characters.  "U0663" stands for the Arabic-Indic   *)
(* digit three, a numeric character of two bytes that is no decimal digit. *)

DigitChars == <<"0", "1", "2", "3", "4", "5", "6", "7", "8", "9">>

DigitChar(d) == DigitChars[d + 1]

\* char::is_numeric
is_numeric(c) == c = "U0663" \/ \E d \in 0..9 : DigitChars[d + 1] = c

\* char::to_digit(10)
to_digit(c) ==
    IF \E d \in 0..9 : DigitChars[d + 1] = c
    THEN Some(CHOOSE d \in 0..9 : DigitChars[d + 1] = c)
    ELSE None

\* the length of a character in UTF-8
ByteLen(c) == IF c = "U0663" THEN 2 ELSE 1

RECURSIVE BytesIn(_, _, _)
\* the bytes of the characters lo..hi of s
BytesIn(s, lo, hi) ==
    IF lo > hi THEN 0
    ELSE IF lo = hi THEN ByteLen(s[lo])
    ELSE BytesIn(s, lo, (lo + hi) \div 2) + BytesIn(s, ((lo + hi) \div 2) + 1, hi)

\* str::len counts bytes
str_len(s) == BytesIn(s, 1, Len(s))

\* str::find('.'): the byte offset of the first '.'
str_find_dot(s) ==
    IF \E i \in 1..Len(s) : s[i] = "."
    THEN Some(BytesIn(s, 1,
              (CHOOSE i \in 1..Len(s) :
                   s[i] = "." /\ \A j \in 1..(i - 1) : s[j] # ".") - 1))
    ELSE None

\* Display of Uint: the decimal digits, most significant first
Uint_to_string(v) ==
    IF v = BigZero THEN <<"0">>
    ELSE << >> \o [i \in 1..Len(v) |-> DigitChar(v[Len(v) + 1 - i])]

to_string_precise(x) ==
    LET decimals == x.denom
        string == Uint_to_string(x.amount)
    IN  IF decimals = 0 THEN string
        ELSE IF Len(string) > decimals
        THEN SubSeq(string, 1, Len(string) - decimals) \o <<".">>
                 \o SubSeq(string, Len(string) - decimals + 1, Len(string))
        ELSE <<"0", ".">> \o [i \in 1..(decimals - Len(string)) |-> "0"] \o string

RECURSIVE LastOther(_, _, _, _)
\* the last position in lo..hi of s that does not hold c, 0 when there is none
LastOther(s, c, lo, hi) ==
    IF lo > hi THEN 0
    ELSE IF lo = hi THEN (IF s[lo] # c THEN lo ELSE 0)
    ELSE LET mid == (lo + hi) \div 2
             upper == LastOther(s, c, mid + 1, hi)
         IN  IF upper # 0 THEN upper ELSE LastOther(s, c, lo, mid)

\* str::trim_end_matches for one character
trim_end_matches(s, c) == SubSeq(s, 1, LastOther(s, c, 1, Len(s)))

\* the trailing zeros are trimmed at every denomination
fmt_trim_always(x) ==
    trim_end_matches(trim_end_matches(to_string_precise(x), "0"), ".")

\* Display for DenominatedAmount
fmt(x) ==
    LET string == to_string_precise(x)
        trimmed == IF x.denom > 0 THEN trim_end_matches(string, "0") ELSE string
    IN  trim_end_matches(trimmed, ".")

\* the filter_map of from_str keeps the decimal digits
IsParsedDigit(c) == is_numeric(c) /\ to_digit(c).some

\* the digits of s, last one first
ParsedDigits(s) ==
    LET kept == SelectSeq(s, IsParsedDigit)
    IN  << >> \o [i \in 1..Len(kept) |-> to_digit(kept[Len(kept) + 1 - i]).val]

RECURSIVE ParseValue(_, _, _)
\* the loop of from_str over the digits lo..hi: the sum of the terms
\* 10^pow * digit, None when a checked operation fails.  The loop adds the
\* terms in order; here the range is halved.  The terms are the same and
\* every running sum of the loop is at most the total, so the two fail
\* together.
ParseValue(digits, lo, hi) ==
    IF lo > hi THEN Some(BigZero)
    ELSE IF lo = hi
    THEN LET scaling == Uint_checked_pow10(lo - 1)
         IN  IF scaling.some THEN Uint_checked_mul(scaling.val, FromNat(digits[lo]))
             ELSE None
    ELSE LET low == ParseValue(digits, lo, (lo + hi) \div 2)
             high == ParseValue(digits, ((lo + hi) \div 2) + 1, hi)
         IN  IF low.some /\ high.some THEN Uint_checked_add(low.val, high.val)
             ELSE None

\* usize subtraction: below zero it panics where overflow is checked and
\* wraps to a value above every length where it is not; -1 stands for that
\* value
usize_sub(a, b) ==
    IF a >= b THEN {Returned(a - b)} ELSE {Panicked, Returned(-1)}

\* from_str once s.len() - 1 took the value last of the second test
from_str_with(s, last) ==
    LET precision == IF str_find_dot(s).some
                     THEN Some(str_len(s) - str_find_dot(s).val - 1)
                     ELSE None
        digits == ParsedDigits(s)
    IN  IF \/ (Len(digits) # str_len(s) /\ ~precision.some)
           \/ (Len(digits) # last /\ precision.some)
        THEN Err("NotNumeric")
        ELSE IF Len(digits) > 77 THEN ErrScaleTooLarge(Len(digits), 77)
        ELSE LET value == ParseValue(digits, 1, Len(digits))
             IN  IF ~value.some THEN Err("InvalidRange")
                 ELSE Ok([amount |-> value.val,
                          denom |-> (IF precision.some THEN precision.val ELSE 0) % 256])

\* the outcomes of DenominatedAmount::from_str: the second test of the
\* condition, and with it s.len() - 1, is evaluated when the first is false
from_str(s) ==
    IF Len(ParsedDigits(s)) # str_len(s) /\ ~str_find_dot(s).some
    THEN {Returned(Err("NotNumeric"))}
    ELSE { IF last.panic THEN Panicked ELSE Returned(from_str_with(s, last.val)) :
               last \in usize_sub(str_len(s), 1) }

\* Amount::from_str: from_str(string)?.scale(denom)
Amount_from_str(s, denom) ==
    { IF o.panic THEN Panicked
      ELSE IF o.val.ok THEN Returned(scale(o.val.val, denom))
      ELSE o : o \in from_str(s) }

-----------------------------------------------------------------------------
(* Serialize and Deserialize: the values travel as strings *)

\* Serialize for Amount
Amount_serialize(a) == Uint_to_string(a)

\* Deserialize for Amount: from_str(&amount_string).unwrap()
Amount_deserialize(s) ==
    { IF o.panic THEN Panicked
      ELSE IF o.val.ok THEN Returned(Ok(o.val.val.amount))
      ELSE Panicked : o \in from_str(s) }

\* Serialize for DenominatedAmount
DenominatedAmount_serialize(x) == to_string_precise(x)

\* Deserialize for DenominatedAmount: from_str(..).map_err(D::Error::custom)
DenominatedAmount_deserialize(s) ==
    { IF o.panic THEN Panicked
      ELSE IF o.val.ok THEN o
      ELSE Returned(Err("custom")) : o \in from_str(s) }

-----------------------------------------------------------------------------
(* Uint as four 64-bit words: the digits of the shielded notes *)

\* the four words of a Uint, least significant first
Uint_words(v) ==
    LET halves == BigDivMod(v, BigMul(WordBase, WordBase))
        low == BigDivMod(halves.r, WordBase)
        high == BigDivMod(halves.q, WordBase)
    IN  <<low.r, low.q, high.r, high.q>>

\* the positions Zero, One, Two, Three of MaspDigitPos, as their discriminants
MaspDigitPos == 0..3

\* MaspDigitPos::denominate
denominate(pos, amount) == Uint_words(amount)[pos + 1]

\* the word is put in the slot counted from the most significant end
from_masp_denominated_reversed(val, denom) ==
    LET words == [i \in 0..3 |-> IF i = 3 - denom THEN val ELSE BigZero]
    IN  FromWords(words[0], words[1], words[2], words[3])

from_masp_denominated(val, denom) ==
    LET words == [i \in 0..3 |-> IF i = denom THEN val ELSE BigZero]
    IN  FromWords(words[0], words[1], words[2], words[3])

\* the + of Uint panics on overflow
Uint_add(a, b) ==
    LET sum == BigAdd(a, b) IN IF IsUint(sum) THEN Returned(sum) ELSE Panicked

\* the * of Uint panics on overflow
Uint_mul(a, b) ==
    LET product == BigMul(a, b)
    IN  IF IsUint(product) THEN Returned(product) ELSE Panicked

\* Add for Amount
Amount_add(a, rhs) == Uint_add(a, rhs)

RECURSIVE Amount_fold(_, _, _)
\* the fold of Sum for Amount over the items from position i on
Amount_fold(acc, items, i) ==
    IF i > Len(items) THEN Returned(acc)
    ELSE LET next == Amount_add(acc, items[i])
         IN  IF next.panic THEN Panicked ELSE Amount_fold(next.val, items, i + 1)

\* Sum for Amount
Amount_sum(items) == Amount_fold(Amount_zero, items, 1)

-----------------------------------------------------------------------------
(* Change and Dec: 256-bit two's-complement integers, held as their bits *)

\* 2^256
TwoTo256 == BigAdd(MAX_VALUE, BigOne)

I256_is_negative(c) == BigLt(MAX_SIGNED_VALUE, c)

I256_neg(c) == IF c = BigZero THEN c ELSE BigSub(TwoTo256, c)

I256_abs(c) == IF I256_is_negative(c) THEN BigSub(TwoTo256, c) ELSE c

\* TryFrom<Uint> for I256
I256_try_from(u) == IF BigLe(u, MAX_SIGNED_VALUE) THEN Ok(u) ELSE Err("TooLarge")

\* the conversion without its range check
Amount_change_unchecked(a) == Returned(a)

\* Amount::change: try_into().unwrap()
Amount_change(a) ==
    LET converted == I256_try_from(a)
    IN  IF converted.ok THEN Returned(converted.val) ELSE Panicked

\* From<Amount> for Change
Change_from(amount) ==
    LET converted == I256_try_from(amount)
    IN  IF converted.ok THEN Returned(converted.val) ELSE Panicked

\* Amount::from_change
from_change(change) == I256_abs(change)

\* From<Change> for Amount
Amount_from(change) == I256_abs(change)

\* the number of fractional digits of a Dec
POS_DECIMAL_PRECISION == 12

Dec_is_negative(dec) == I256_is_negative(dec)

Dec_abs(dec) == I256_abs(dec)

\* Amount::mul_ceil
mul_ceil(a, dec) ==
    IF Dec_is_negative(dec) THEN Panicked
    ELSE LET tot == Uint_mul(a, Dec_abs(dec))
         IN  IF tot.panic THEN Panicked
             ELSE LET denom == BigPow10(POS_DECIMAL_PRECISION)
                      floor_div == BigDiv(tot.val, denom)
                      rem == BigMod(tot.val, denom)
                  IN  IF rem # BigZero
                      THEN Uint_add(floor_div, FromNat(1))
                      ELSE Returned(floor_div)

-----------------------------------------------------------------------------
(* The key segment of an Amount: 32 big-endian bytes in base 32 *)

\* the machine-size number of a magnitude below 1000
BigToNat(a) == Dig(a, 1) + 10 * Dig(a, 2) + 100 * Dig(a, 3)

RECURSIVE BigPow(_, _)
\* b^n by squaring
BigPow(b, n) ==
    IF n = 0 THEN BigOne
    ELSE LET half == BigPow(b, n \div 2)
         IN  IF n % 2 = 0 THEN BigMul(half, half)
             ELSE BigMul(BigMul(half, half), b)

RECURSIVE BytesOf(_, _)
\* the n bytes of v, most significant first, for v < 256^n
BytesOf(v, n) ==
    IF n = 1 THEN <<BigToNat(v)>>
    ELSE LET low == n \div 2
             dm == BigDivMod(v, BigPow(FromNat(256), low))
         IN  BytesOf(dm.q, n - low) \o BytesOf(dm.r, low)

\* Uint::to_big_endian into a buffer of 32 bytes
Uint_to_big_endian(v) == BytesOf(v, 32)

RECURSIVE ValueOf(_, _, _)
\* the number written by the bytes lo..hi, most significant first
ValueOf(bytes, lo, hi) ==
    IF lo > hi THEN BigZero
    ELSE IF lo = hi THEN FromNat(bytes[lo])
    ELSE LET mid == (lo + hi) \div 2
         IN  BigAdd(BigMul(ValueOf(bytes, lo, mid), BigPow(FromNat(256), hi - mid)),
                    ValueOf(bytes, mid + 1, hi))

\* Uint::from_big_endian asserts that the slice fits the four words
Uint_from_big_endian(bytes) ==
    IF Len(bytes) > 32 THEN Panicked ELSE Returned(ValueOf(bytes, 1, Len(bytes)))

\* the alphabet of BASE32HEX
Base32HexSymbols ==
    <<"0", "1", "2", "3", "4", "5", "6", "7", "8", "9", "A", "B", "C", "D", "E",
      "F", "G", "H", "I", "J", "K", "L", "M", "N", "O", "P", "Q", "R", "S", "T",
      "U", "V">>

\* bit i (from 0, most significant first) of a sequence of units of width
\* bits each; beyond the end the bits are zero
BitAt(units, width, i) ==
    IF i >= width * Len(units) THEN 0
    ELSE (units[(i \div width) + 1] \div (2 ^ (width - 1 - (i % width)))) % 2

\* the number of the count bits from bit i on
BitsFrom(units, width, i, count) ==
    LET b == [j \in 0..7 |-> IF j < count THEN BitAt(units, width, i + j) * (2 ^ (count - 1 - j)) ELSE 0]
    IN  b[0] + b[1] + b[2] + b[3] + b[4] + b[5] + b[6] + b[7]

\* BASE32HEX_NOPAD.encode
BASE32HEX_NOPAD_encode(bytes) ==
    << >> \o [k \in 1..((8 * Len(bytes) + 4) \div 5) |->
                 Base32HexSymbols[BitsFrom(bytes, 8, 5 * (k - 1), 5) + 1]]

\* the value of a symbol of the alphabet
SymbolValue(c) == (CHOOSE k \in 1..32 : Base32HexSymbols[k] = c) - 1

\* BASE32HEX_NOPAD.decode: the bytes, or a DecodeError for a symbol outside
\* the alphabet, an impossible length or non-zero trailing bits
BASE32HEX_NOPAD_decode(s) ==
    IF \E i \in 1..Len(s) : \A k \in 1..32 : Base32HexSymbols[k] # s[i]
    THEN Err("Symbol")
    ELSE IF Len(s) % 8 \in {1, 3, 6} THEN Err("Length")
    ELSE LET values == << >> \o [i \in 1..Len(s) |-> SymbolValue(s[i])]
             nbytes == (5 * Len(s)) \div 8
         IN  IF BitsFrom(values, 5, 8 * nbytes, 5 * Len(s) - 8 * nbytes) # 0
             THEN Err("Trailing")
             ELSE Ok(<< >> \o [i \in 1..nbytes |-> BitsFrom(values, 5, 8 * (i - 1), 8)])

\* the bytes are written least significant first
KeySeg_raw_little_endian(a) ==
    LET buf == Uint_to_big_endian(a)
    IN  BASE32HEX_NOPAD_encode(<< >> \o [i \in 1..32 |-> buf[33 - i]])

\* KeySeg::raw for Amount
KeySeg_raw(a) == BASE32HEX_NOPAD_encode(Uint_to_big_endian(a))

\* KeySeg::parse for Amount
KeySeg_parse(string) ==
    LET bytes == BASE32HEX_NOPAD_decode(string)
    IN  IF ~bytes.ok THEN Returned(Err("ParseKeySeg"))
        ELSE LET value == Uint_from_big_endian(bytes.val)
             IN  IF value.panic THEN Panicked ELSE Returned(Ok(value.val))

-----------------------------------------------------------------------------
(* Inputs *)

\* magnitudes around the unsigned and the signed ceiling, and powers of ten
\* around the largest one that fits
LargeAmounts ==
    { MAX_VALUE, BigSub(MAX_VALUE, BigOne),
      MAX_SIGNED_VALUE, BigAdd(MAX_SIGNED_VALUE, BigOne),
      BigSub(MAX_SIGNED_VALUE, BigOne),
      BigPow10(77), BigPow10(76), BigMul(WordBase, WordBase) }

AmountSamples == { FromNat(n) : n \in 0..MaxSmall } \cup LargeAmounts

\* 10^77 is the largest power of ten below 2^256
DenomSamples == (0..MaxSmallDenom) \cup {76, 77, 78, 255}

\* the balances and the amounts moved
BalanceSamples ==
    { BigZero, BigOne, MAX_SIGNED_VALUE, BigAdd(MAX_SIGNED_VALUE, BigOne),
      BigSub(MAX_VALUE, BigOne), MAX_VALUE }

\* the mantissas of test_denominated_amt_ord among them
MantissaSamples ==
    { FromNat(n) : n \in 0..MaxSmall }
        \cup { FromNat(15), FromNat(1499), FromNat(1500), FromNat(1501),
               BigPow10(77), MAX_VALUE }

DenominatedSamples ==
    { DenominatedAmount_new(m, d) :
          m \in MantissaSamples, d \in (0..MaxSmallDenom) \cup {77, 78, 255} }

\* the right-hand sides of the comparisons
OtherSamples ==
    { DenominatedAmount_new(m, d) :
          m \in { BigZero, FromNat(15), FromNat(1499), FromNat(1500),
                  FromNat(1501), MAX_VALUE },
          d \in {0, 1, 3, 78} }

Alphabet == {"0", "1", "9", ".", "a", "U0663"}

RECURSIVE StringsOfLen(_)
StringsOfLen(n) ==
    IF n = 0 THEN { << >> }
    ELSE { Append(t, c) : t \in StringsOfLen(n - 1), c \in Alphabet }

Repeat(c, n) == << >> \o [i \in 1..n |-> c]

\* strings at the limit of 77 digits, well-formed and not
LongStrings ==
    { Repeat("9", 77), Repeat("9", 78), Repeat("0", 78),
      Repeat("9", 40) \o <<".">> \o Repeat("9", 37),
      Repeat("9", 40) \o <<".">> \o Repeat("9", 38),
      <<".">> \o Repeat("1", 77),
      Repeat("9", 78) \o <<"a">>,
      Repeat("9", 40) \o <<".">> \o Repeat("9", 38) \o <<".">>,
      <<"1", ".", "1", "2">>, <<"1", ".", "1", "2", ".", "1">>,
      <<"1", ".", "1", "a">> }

StringSamples == UNION { StringsOfLen(n) : n \in 0..MaxStrLen } \cup LongStrings

NoAmount == BigZero
NoDenominated == [amount |-> BigZero, denom |-> 0]
NoString == << >>

-----------------------------------------------------------------------------
(* The calls.  self is an Amount, den a DenominatedAmount, str a string;   *)
(* op names the operation called last, arg its argument and ret what it    *)
(* returned; pc is "panicked" once a call has panicked.                    *)

\* a call that returns r and leaves its receiver alone
Call(name, a, r) ==
    /\ pc = "running"
    /\ op' = name
    /\ arg' = a
    /\ ret' = r
    /\ pc' = "done"
    /\ UNCHANGED <<self, den, str, nsteps, balances, initial>>

\* a call with the outcome o: a returned value or a panic
CallOutcome(name, a, o) ==
    /\ pc = "running"
    /\ op' = name
    /\ arg' = a
    /\ ret' = IF o.panic THEN ret ELSE o.val
    /\ pc' = IF o.panic THEN "panicked" ELSE "done"
    /\ UNCHANGED <<self, den, str, nsteps, balances, initial>>

(* Amount: the checked operations *)

InitAmount ==
    /\ self \in AmountSamples
    /\ den = NoDenominated
    /\ str = NoString
    /\ op = "new"
    /\ arg = BigZero
    /\ ret = None
    /\ pc = "running"
    /\ nsteps = 0
    /\ balances = << >>
    /\ initial = << >>

CheckedAdd == \E amount \in AmountSamples :
    Call("checked_add", amount, Amount_checked_add(self, amount))

CheckedSignedAdd == \E amount \in AmountSamples :
    Call("checked_signed_add", amount, Amount_checked_signed_add(self, amount))

CheckedSub == \E amount \in AmountSamples :
    Call("checked_sub", amount, Amount_checked_sub(self, amount))

CheckedMul == \E amount \in AmountSamples :
    Call("checked_mul", amount, Amount_checked_mul(self, amount))

CheckedDiv == \E amount \in AmountSamples :
    Call("checked_div", amount, Amount_checked_div(self, amount))

\* self is the unsigned integer that is converted
FromUint == \E denom \in DenomSamples :
    Call("from_uint", denom, from_uint(self, denom))

NextAmount ==
    \/ CheckedAdd
    \/ CheckedSignedAdd
    \/ CheckedSub
    \/ CheckedMul
    \/ CheckedDiv
    \/ FromUint

SpecAmount == InitAmount /\ [][NextAmount]_vars

(* Amount: a balance that spends and receives in place *)

InitBalance ==
    /\ self \in BalanceSamples
    /\ den = NoDenominated
    /\ str = NoString
    /\ op = "new"
    /\ arg = BigZero
    /\ ret = FALSE
    /\ pc = "running"
    /\ nsteps = 0
    /\ balances = << >>
    /\ initial = << >>

\* a call of a &mut self method with the outcome o: the new value of self,
\* or a panic
CallMut(name, a, o) ==
    /\ pc = "running"
    /\ nsteps < MaxSteps
    /\ op' = name
    /\ arg' = a
    /\ nsteps' = nsteps + 1
    /\ pc' = IF o.panic THEN "panicked" ELSE pc
    /\ self' = IF o.panic THEN self ELSE o.val
    /\ UNCHANGED <<den, str, ret, balances, initial>>

CanSpend == \E amount \in BalanceSamples :
    /\ pc = "running"
    /\ nsteps < MaxSteps
    /\ op' = "can_spend"
    /\ arg' = amount
    /\ ret' = can_spend(self, amount)
    /\ nsteps' = nsteps + 1
    /\ UNCHANGED <<self, den, str, pc, balances, initial>>

Spend == \E amount \in BalanceSamples :
    CallMut("spend", amount, spend(self, amount))

Receive == \E amount \in BalanceSamples :
    CallMut("receive", amount, receive(self, amount))

NextBalance ==
    \/ CanSpend
    \/ Spend
    \/ Receive

SpecBalance == InitBalance /\ [][NextBalance]_vars

(* DenominatedAmount *)

InitDenominated ==
    /\ den \in DenominatedSamples
    /\ self = NoAmount
    /\ str = NoString
    /\ op = "new"
    /\ arg = NoDenominated
    /\ ret = None
    /\ pc = "running"
    /\ nsteps = 0
    /\ balances = << >>
    /\ initial = << >>

PartialCmp == \E other \in OtherSamples :
    CallOutcome("partial_cmp", other, partial_cmp(den, other))

Cmp == \E other \in OtherSamples :
    CallOutcome("cmp", other, cmp(den, other))

Eq == \E other \in OtherSamples :
    Call("eq", other, DenominatedAmount_eq(den, other))

IncreasePrecision == \E denom \in DenomSamples :
    Call("increase_precision", denom, increase_precision(den, denom))

\* the precise string of den is written and parsed back, as Serialize and
\* Deserialize of DenominatedAmount do
PreciseRoundTrip == \E o \in from_str(to_string_precise(den)) :
    /\ CallOutcome("from_str(to_string_precise)", den, o)

NextDenominated ==
    \/ PartialCmp
    \/ Cmp
    \/ Eq
    \/ IncreasePrecision
    \/ PreciseRoundTrip

SpecDenominated == InitDenominated /\ [][NextDenominated]_vars

(* Parsing *)

InitString ==
    /\ str \in StringSamples
    /\ self = NoAmount
    /\ den = NoDenominated
    /\ op = "new"
    /\ arg = 0
    /\ ret = None
    /\ pc = "running"
    /\ nsteps = 0
    /\ balances = << >>
    /\ initial = << >>

FromStr == \E o \in from_str(str) :
    CallOutcome("from_str", 0, o)

AmountFromStr == \E denom \in DenomSamples : \E o \in Amount_from_str(str, denom) :
    CallOutcome("Amount::from_str", denom, o)

NextString ==
    \/ FromStr
    \/ AmountFromStr

SpecString == InitString /\ [][NextString]_vars

(* DenominatedAmount: canonical form, arithmetic and display *)

\* the mantissas of test_denominateed_arithmetic and test_token_display
\* among them
ArithSamples ==
    { DenominatedAmount_new(m, d) :
          m \in { FromNat(n) : n \in 0..MaxSmall }
                    \cup { FromNat(10), FromNat(110), FromNat(200), FromNat(1120),
                           FromNat(1500), BigPow10(77), MAX_VALUE },
          d \in (0..MaxSmallDenom) \cup {6, 77, U8_MAX} }

\* the right-hand sides
ArithOthers ==
    { DenominatedAmount_new(m, d) :
          m \in { BigZero, BigOne, FromNat(10), FromNat(15), MAX_VALUE },
          d \in {0, 1, 2, 3, 78, U8_MAX} }

InitArith ==
    /\ den \in ArithSamples
    /\ self = NoAmount
    /\ str = NoString
    /\ op = "new"
    /\ arg = NoDenominated
    /\ ret = None
    /\ pc = "running"
    /\ nsteps = 0
    /\ balances = << >>
    /\ initial = << >>

\* canonical is taken of den and of a second value
Canonical == \E other \in ArithOthers :
    Call("canonical", other, [self |-> canonical(den), other |-> canonical(other)])

DenCheckedAdd == \E rhs \in ArithOthers :
    Call("DenominatedAmount::checked_add", rhs, DenominatedAmount_checked_add(den, rhs))

DenCheckedSub == \E rhs \in ArithOthers :
    Call("DenominatedAmount::checked_sub", rhs, DenominatedAmount_checked_sub(den, rhs))

DenCheckedMul == \E rhs \in ArithOthers :
    Call("DenominatedAmount::checked_mul", rhs, DenominatedAmount_checked_mul(den, rhs))

\* den is written with to_string_precise and with Display
Display ==
    Call("fmt", NoDenominated,
         [precise |-> to_string_precise(den), display |-> fmt(den)])

NextArith ==
    \/ Canonical
    \/ DenCheckedAdd
    \/ DenCheckedSub
    \/ DenCheckedMul
    \/ Display

SpecArith == InitArith /\ [][NextArith]_vars

(* Conversions of an Amount: note digits, key segments, rates, changes *)

\* the value of test_from_masp_denominated and of test_key_seg among them
ConvertSamples ==
    AmountSamples
        \cup { FromWords(FromNat(15), FromNat(16), FromNat(17), FromNat(18)),
               BigMul(FromNat(123456), FromNat(10000)) }

WordSamples == { BigZero, BigOne, FromNat(15), U64_MAX }

\* strings that are no key segment of an Amount
KeyStrings ==
    { << >>, <<"0">>, <<"0", "0">>, <<"V", "V">>, <<"a", "0">>, <<"W", "0">>,
      Repeat("V", 52), Repeat("0", 56), Repeat("V", 56) }

\* the rates 0, 0.000000000001, 0.34, 1, 2.5 and -0.34
DecSamples ==
    { BigZero, BigOne, BigMul(FromNat(34), BigPow10(10)),
      BigPow10(POS_DECIMAL_PRECISION), BigMul(FromNat(25), BigPow10(11)),
      I256_neg(BigMul(FromNat(34), BigPow10(10))) }

ChangeSamples ==
    { BigZero, BigOne, I256_neg(BigOne), FromNat(3), I256_neg(FromNat(3)),
      MAX_SIGNED_VALUE, I256_neg(MAX_SIGNED_VALUE) }

InitConvert ==
    /\ self \in ConvertSamples
    /\ den = NoDenominated
    /\ str = NoString
    /\ op = "new"
    /\ arg = BigZero
    /\ ret = None
    /\ pc = "running"
    /\ nsteps = 0
    /\ balances = << >>
    /\ initial = << >>

Denominate == \E pos \in MaspDigitPos :
    Call("denominate", pos, denominate(pos, self))

FromMaspDenominated == \E val \in WordSamples, pos \in MaspDigitPos :
    Call("from_masp_denominated", [val |-> val, denom |-> pos],
         from_masp_denominated(val, pos))

\* self is split into its four digits and summed up again
Recompose ==
    CallOutcome("recompose", BigZero,
        Amount_sum(<< >> \o [i \in 1..4 |->
            from_masp_denominated(denominate(i - 1, self), i - 1)]))

RawKey ==
    Call("KeySeg::raw", BigZero, KeySeg_raw(self))

ParseKey == \E string \in {KeySeg_raw(self)} \cup KeyStrings :
    CallOutcome("KeySeg::parse", string, KeySeg_parse(string))

MulCeil == \E dec \in DecSamples :
    CallOutcome("mul_ceil", dec, mul_ceil(self, dec))

Change ==
    CallOutcome("change", BigZero, Amount_change(self))

ChangeFrom ==
    CallOutcome("Change::from", BigZero, Change_from(self))

FromChange == \E change \in ChangeSamples :
    Call("from_change", change, from_change(change))

AmountFrom == \E change \in ChangeSamples :
    Call("Amount::from", change, Amount_from(change))

\* Amount::from(Change::from(self))
ChangeRoundTrip ==
    LET change == Change_from(self)
    IN  CallOutcome("Amount::from(Change::from)", BigZero,
            IF change.panic THEN Panicked ELSE Returned(Amount_from(change.val)))

NextConvert ==
    \/ Denominate
    \/ FromMaspDenominated
    \/ Recompose
    \/ RawKey
    \/ ParseKey
    \/ MulCeil
    \/ Change
    \/ ChangeFrom
    \/ FromChange
    \/ AmountFrom
    \/ ChangeRoundTrip

SpecConvert == InitConvert /\ [][NextConvert]_vars

(* Serialization *)

\* a string to read, an Amount to write or a DenominatedAmount to write
InitSerde ==
    /\ \/ str \in StringSamples /\ self = NoAmount /\ den = NoDenominated
       \/ str = NoString /\ self \in AmountSamples /\ den = NoDenominated
       \/ str = NoString /\ self = NoAmount /\ den \in DenominatedSamples
    /\ op = "new"
    /\ arg = BigZero
    /\ ret = None
    /\ pc = "running"
    /\ nsteps = 0
    /\ balances = << >>
    /\ initial = << >>

AmountDeserialize == \E o \in Amount_deserialize(str) :
    CallOutcome("Amount::deserialize", str, o)

DenominatedDeserialize == \E o \in DenominatedAmount_deserialize(str) :
    CallOutcome("DenominatedAmount::deserialize", str, o)

\* self is serialized and read back
AmountRoundTrip == \E o \in Amount_deserialize(Amount_serialize(self)) :
    CallOutcome("Amount::deserialize(serialize)", Amount_serialize(self), o)

\* den is serialized and read back
DenominatedRoundTrip ==
    \E o \in DenominatedAmount_deserialize(DenominatedAmount_serialize(den)) :
        CallOutcome("DenominatedAmount::deserialize(serialize)",
                    DenominatedAmount_serialize(den), o)

NextSerde ==
    \/ AmountDeserialize
    \/ DenominatedDeserialize
    \/ AmountRoundTrip
    \/ DenominatedRoundTrip

SpecSerde == InitSerde /\ [][NextSerde]_vars

(* Balances that transfer to each other *)

\* the number of balances
NumBalances == 2
\* the number of transfers in one behaviour
MaxTransfers == 2

\* the balances at the start
TransferBalances == { BigZero, BigOne, BigSub(MAX_VALUE, BigOne), MAX_VALUE }

\* the amounts moved
TransferAmounts == { BigOne, BigSub(MAX_VALUE, BigOne) }

InitTransfer ==
    /\ balances \in [1..NumBalances -> TransferBalances]
    /\ initial = balances
    /\ self = NoAmount
    /\ den = NoDenominated
    /\ str = NoString
    /\ op = "new"
    /\ arg = BigZero
    /\ ret = None
    /\ pc = "running"
    /\ nsteps = 0

\* if source.can_spend(&amount) { source.spend(&amount); target.receive(&amount) }
\* on the balances source and target: spend and receive change their balance
\* in place, and a panic of one of them ends the behaviour where it happens
SpendThenReceive(name, source, target, amount) ==
    /\ pc = "running"
    /\ nsteps < MaxTransfers
    /\ can_spend(balances[source], amount)
    /\ \E spent \in {spend(balances[source], amount)} :
       \E debited \in {IF spent.panic THEN balances
                       ELSE [balances EXCEPT ![source] = spent.val]} :
       \E received \in {IF spent.panic THEN Panicked
                        ELSE receive(debited[target], amount)} :
           /\ op' = name
           /\ arg' = [source |-> source, target |-> target, amount |-> amount,
                       balances |-> balances]
           /\ ret' = [spend |-> ~spent.panic, receive |-> ~received.panic]
           /\ balances' = IF received.panic THEN debited
                          ELSE [debited EXCEPT ![target] = received.val]
           /\ pc' = IF spent.panic \/ received.panic THEN "panicked" ELSE pc
    /\ nsteps' = nsteps + 1
    /\ UNCHANGED <<self, den, str, initial>>

\* an amount moves from one balance to another one
Transfer == \E source \in 1..NumBalances, target \in 1..NumBalances :
    \E amount \in TransferAmounts :
        /\ source # target
        /\ SpendThenReceive("transfer", source, target, amount)

\* an amount is spent from a balance and received by the same balance
SpendAndReceiveBack == \E source \in 1..NumBalances : \E amount \in TransferAmounts :
    SpendThenReceive("spend;receive", source, source, amount)

NextTransfer ==
    \/ Transfer
    \/ SpendAndReceiveBack

SpecTransfer == InitTransfer /\ [][NextTransfer]_vars

\* every operation of the model
Init == InitAmount \/ InitBalance \/ InitDenominated \/ InitString \/ InitArith
            \/ InitConvert \/ InitSerde \/ InitTransfer

Next == NextAmount \/ NextBalance \/ NextDenominated \/ NextString \/ NextArith
            \/ NextConvert \/ NextSerde \/ NextTransfer

Spec == Init /\ [][Next]_vars

-----------------------------------------------------------------------------
(* The properties *)

\* 2^256 - 1 = 115792089237316195423570985008687907853269984665640564039457584007913129639935
UnsignedCeiling ==
    <<5, 3, 9, 9, 3, 6, 9, 2, 1, 3, 1, 9, 7, 0, 0, 4, 8, 5, 7, 5, 4, 9, 3,
      0, 4, 6, 5, 0, 4, 6, 5, 6, 6, 4, 8, 9, 9, 6, 2, 3, 5, 8, 7, 0, 9, 7,
      8, 6, 8, 0, 0, 5, 8, 9, 0, 7, 5, 3, 2, 4, 5, 9, 1, 6, 1, 3, 7, 3, 2,
      9, 8, 0, 2, 9, 7, 5, 1, 1>>

\* 2^255 - 1 = 57896044618658097711785492504343953926634992332820282019728792003956564819967
SignedCeiling ==
    <<7, 6, 9, 9, 1, 8, 4, 6, 5, 6, 5, 9, 3, 0, 0, 2, 9, 7, 8, 2, 7, 9, 1,
      0, 2, 8, 2, 0, 2, 8, 2, 3, 3, 2, 9, 9, 4, 3, 6, 6, 2, 9, 3, 5, 9, 3,
      4, 3, 4, 0, 5, 2, 9, 4, 5, 8, 7, 1, 1, 7, 7, 9, 0, 8, 5, 6, 8, 1, 6,
      4, 4, 0, 6, 9, 8, 7, 5>>

\* the ordering of the real numbers x.amount * 10^-x.denom and
\* y.amount * 10^-y.denom
RealOrdering(x, y) ==
    Uint_partial_cmp(BigShift(x.amount, y.denom), BigShift(y.amount, x.denom))

Reverse(o) == IF o = "Less" THEN "Greater" ELSE IF o = "Greater" THEN "Less" ELSE o

\* C1: partial_cmp and cmp of any two DenominatedAmounts complete without a
\* panic and return the ordering of the two real numbers, whatever the
\* difference of the denominations.
C1_OrderingIsTotal ==
    (op \in {"partial_cmp", "cmp"}) =>
        /\ pc = "done"
        /\ (op = "partial_cmp" => ret = Some(RealOrdering(den, arg)))
        /\ (op = "cmp" => ret = RealOrdering(den, arg))

\* C2: when increase_precision to the larger of the two denominations
\* succeeds for both operands, partial_cmp returns the comparison of the two
\* raised mantissas, and partial_cmp with the operands exchanged returns the
\* reverse; 15 at denom 1 is Less than 1501 at denom 3 and Greater than 1499
\* at denom 3.
C2_CrossScaleOrdering ==
    (op = "partial_cmp") =>
        LET D == MaxOf(den.denom, arg.denom)
            x == increase_precision(den, D)
            y == increase_precision(arg, D)
        IN  /\ (x.ok /\ y.ok) =>
                /\ pc = "done"
                /\ ret = Some(Uint_partial_cmp(x.val.amount, y.val.amount))
                /\ partial_cmp(arg, den) = Returned(Some(Reverse(ret.val)))
            /\ (den = DenominatedAmount_new(FromNat(15), 1) /\ arg.denom = 3) =>
                /\ (arg.amount = FromNat(1501) => ret = Some("Less"))
                /\ (arg.amount = FromNat(1500) => ret = Some("Equal"))
                /\ (arg.amount = FromNat(1499) => ret = Some("Greater"))

\* C2 witness: 15 at denom 1 has been compared with 1501 at denom 3
C2_Witness ==
    /\ op = "partial_cmp"
    /\ den = DenominatedAmount_new(FromNat(15), 1)
    /\ arg = DenominatedAmount_new(FromNat(1501), 3)
    /\ ret = Some("Less")

\* C3: == holds iff mantissa and denomination both match; two values that
\* are numerically equal at different denominations compare Equal under
\* partial_cmp in both argument orders and are not ==; x == y implies that
\* partial_cmp(x, y) is Equal.
C3_StructuralEqNumericOrd ==
    /\ (op = "eq") => (ret <=> (den.amount = arg.amount /\ den.denom = arg.denom))
    /\ (op = "partial_cmp" /\ RealOrdering(den, arg) = "Equal"
            /\ den.denom # arg.denom) =>
        /\ pc = "done"
        /\ ret = Some("Equal")
        /\ partial_cmp(arg, den) = Returned(Some("Equal"))
        /\ ~DenominatedAmount_eq(den, arg)
    /\ (op = "partial_cmp" /\ DenominatedAmount_eq(den, arg)) =>
        (pc = "done" /\ ret = Some("Equal"))

\* C4: for every DenominatedAmount x, from_str(to_string_precise(x)) succeeds
\* and returns a value with the mantissa and the denomination of x.
C4_PreciseRoundTrip ==
    (op = "from_str(to_string_precise)") =>
        (pc = "done" /\ ret.ok /\ ret.val = den)

\* the digits of a string, the characters that are neither digit nor point,
\* and the points
DigitCount(s) == Cardinality({i \in 1..Len(s) : \E d \in 0..9 : s[i] = DigitChars[d + 1]})
PointCount(s) == Cardinality({i \in 1..Len(s) : s[i] = "."})
OtherCount(s) == Len(s) - DigitCount(s) - PointCount(s)
WellFormed(s) == OtherCount(s) = 0 /\ PointCount(s) <= 1

\* the digits after the point
FractionDigits(s) ==
    IF PointCount(s) = 0 THEN 0
    ELSE Len(s) - (CHOOSE i \in 1..Len(s) : s[i] = "." /\ \A j \in 1..(i - 1) : s[j] # ".")

\* the integer written by the digits of a well-formed string
WrittenInteger(s) ==
    LET kept == SelectSeq(s, LAMBDA c : c # ".")
    IN  Norm(<< >> \o [i \in 1..Len(kept) |->
                 CHOOSE d \in 0..9 : kept[Len(kept) + 1 - i] = DigitChars[d + 1]])

\* C5: from_str accepts a string iff it is digits with at most one point and
\* has at most 77 digits; then the mantissa is the integer written by the
\* digits and the denomination the number of digits after the point.  Any
\* other character or a second point gives NotNumeric, also when the string
\* is too long; a well-formed string of more than 77 digits gives
\* ScaleTooLarge(digit count, 77).
C5_ParseAcceptance ==
    (op = "from_str") =>
        /\ pc = "done"
        /\ ret.ok <=> (WellFormed(str) /\ DigitCount(str) <= 77)
        /\ ret.ok =>
            /\ ret.val.amount = WrittenInteger(str)
            /\ ret.val.denom = FractionDigits(str)
        /\ ~WellFormed(str) => (~ret.ok /\ ret.err = "NotNumeric")
        /\ (WellFormed(str) /\ DigitCount(str) > 77) =>
            /\ ~ret.ok
            /\ ret.err = "ScaleTooLarge"
            /\ ret.got = DigitCount(str)
            /\ ret.max = 77

\* C5 without the empty string: what the parser does on every other input
C5_NonEmptyAcceptance == (str # << >>) => C5_ParseAcceptance

\* C6: checked_add is Some(a + b) exactly when a + b <= 2^256 - 1,
\* checked_sub is Some(a - b) exactly when b <= a, checked_mul is Some(a * b)
\* exactly when a * b <= 2^256 - 1, checked_div is Some(floor(a / b)) exactly
\* when b # 0; otherwise they are None.
C6_CheckedArithmetic ==
    /\ (op = "checked_add") =>
        IF BigLe(BigAdd(self, arg), UnsignedCeiling)
        THEN ret.some /\ ret.val = BigAdd(self, arg)
        ELSE ~ret.some
    /\ (op = "checked_sub") =>
        IF BigLe(arg, self)
        THEN ret.some /\ BigAdd(ret.val, arg) = self
        ELSE ~ret.some
    /\ (op = "checked_mul") =>
        IF BigLe(BigMul(self, arg), UnsignedCeiling)
        THEN ret.some /\ ret.val = BigMul(self, arg)
        ELSE ~ret.some
    /\ (op = "checked_div") =>
        IF arg # BigZero
        THEN /\ ret.some
             /\ BigLe(BigMul(ret.val, arg), self)
             /\ BigLt(self, BigMul(BigAdd(ret.val, BigOne), arg))
        ELSE ~ret.some
    /\ (op \in {"checked_add", "checked_sub", "checked_mul", "checked_div"}) =>
        pc = "done"

\* C6 witness: an addition one above the unsigned ceiling has returned None
C6_Witness ==
    /\ op = "checked_add"
    /\ self = MAX_VALUE
    /\ arg = BigOne
    /\ ret = None

\* C7: checked_signed_add is Some(a + b) exactly when a + b <= 2^255 - 1 and
\* None otherwise, where checked_add on the same operands is Some whenever
\* the sum is at most 2^256 - 1.
C7_CheckedSignedAdd ==
    (op = "checked_signed_add") =>
        /\ IF BigLe(BigAdd(self, arg), SignedCeiling)
           THEN ret.some /\ ret.val = BigAdd(self, arg)
           ELSE ~ret.some
        /\ BigLe(BigAdd(self, arg), UnsignedCeiling) =>
               Amount_checked_add(self, arg) = Some(BigAdd(self, arg))
        /\ (self = Amount_max /\ arg = Amount_zero) => ~ret.some
        /\ (self = Amount_max_signed /\ arg = Amount_max_signed) => ~ret.some

\* C7 witness: max_signed + 1 is refused by checked_signed_add
C7_Witness ==
    /\ op = "checked_signed_add"
    /\ self = Amount_max_signed
    /\ arg = BigOne
    /\ ret = None

C9_FromUint ==
    (op = "from_uint") =>
        IF BigLe(BigShift(self, arg), UnsignedCeiling)
        THEN ret.ok /\ ret.val = BigShift(self, arg)
        ELSE ~ret.ok

\* C10: increase_precision(x, target) is PrecisionDecrease when target is
\* below x.denom; otherwise it is Ok((x.amount * 10^(target - x.denom),
\* target)) exactly when that product is at most 2^256 - 1 and
\* PrecisionOverflow when it is above; a successful result compares Equal
\* to x.
C10_IncreasePrecision ==
    (op = "increase_precision") =>
        IF arg < den.denom
        THEN ~ret.ok /\ ret.err = "PrecisionDecrease"
        ELSE IF BigLe(BigShift(den.amount, arg - den.denom), UnsignedCeiling)
        THEN /\ ret.ok
             /\ ret.val = DenominatedAmount_new(
                              BigShift(den.amount, arg - den.denom), arg)
             /\ partial_cmp(ret.val, den) = Returned(Some("Equal"))
        ELSE ~ret.ok /\ ret.err = "PrecisionOverflow"

\* C11: canonical is idempotent; a canonical form with a denomination above
\* zero has a mantissa that is not divisible by ten; its denomination is at
\* most the original one and its value is the original value; two
\* numerically equal values have the same canonical form.
C11_Canonical ==
    (op = "canonical") =>
        LET c == ret.self
        IN  /\ canonical(c) = c
            /\ (c.denom > 0 => BigMod(c.amount, FromNat(10)) # BigZero)
            /\ c.denom <= den.denom
            /\ c.denom >= 0
            /\ den.amount = BigMul(c.amount, BigPow10(den.denom - c.denom))
            /\ (RealOrdering(den, arg) = "Equal" => ret.other = c)

\* C11 witness: two different representations of one non-zero value have
\* been brought to one canonical form of a lower denomination
C11_Witness ==
    /\ op = "canonical"
    /\ den # arg
    /\ den.amount # BigZero
    /\ RealOrdering(den, arg) = "Equal"
    /\ ret.self.denom < den.denom
    /\ ret.self = ret.other

\* C12: checked_add and checked_sub of DenominatedAmounts raise the operand
\* of the lower denomination to the larger denomination D; the result is None
\* when that raise fails; otherwise the sum of the aligned mantissas at D
\* (None above 2^256-1), or the difference at D (None when the right-hand
\* side is greater); checked_add does not depend on the order of its operands.
C12_DenominatedAddSub ==
    (op \in {"DenominatedAmount::checked_add", "DenominatedAmount::checked_sub"}) =>
        LET D == MaxOf(den.denom, arg.denom)
            x == increase_precision(den, D)
            y == increase_precision(arg, D)
        IN  /\ (~x.ok \/ ~y.ok) => ret = None
            /\ (x.ok /\ y.ok /\ op = "DenominatedAmount::checked_add") =>
                   LET sum == BigAdd(x.val.amount, y.val.amount)
                   IN  ret = IF BigLe(sum, UnsignedCeiling)
                             THEN Some(DenominatedAmount_new(sum, D))
                             ELSE None
            /\ (x.ok /\ y.ok /\ op = "DenominatedAmount::checked_sub") =>
                   ret = IF RealOrdering(den, arg) = "Less"
                         THEN None
                         ELSE Some(DenominatedAmount_new(
                                  BigSub(x.val.amount, y.val.amount), D))
            /\ (op = "DenominatedAmount::checked_add") =>
                   ret = DenominatedAmount_checked_add(arg, den)
            /\ (den = DenominatedAmount_new(FromNat(10), 3)
                    /\ arg = DenominatedAmount_new(FromNat(10), 2)) =>
                   ret = IF op = "DenominatedAmount::checked_add"
                         THEN Some(DenominatedAmount_new(FromNat(110), 3))
                         ELSE None
            /\ (den = DenominatedAmount_new(FromNat(10), 2)
                    /\ arg = DenominatedAmount_new(FromNat(10), 3)
                    /\ op = "DenominatedAmount::checked_sub") =>
                   ret = Some(DenominatedAmount_new(FromNat(90), 3))

\* C12 witness: 10 at denom 3 and 10 at denom 2 have been added to 110 at
\* denom 3
C12_Witness ==
    /\ op = "DenominatedAmount::checked_add"
    /\ den = DenominatedAmount_new(FromNat(10), 3)
    /\ arg = DenominatedAmount_new(FromNat(10), 2)
    /\ ret = Some(DenominatedAmount_new(FromNat(110), 3))

\* C13: checked_mul of DenominatedAmounts is Some of the product of the
\* mantissas at the sum of the denominations exactly when the product is at
\* most 2^256-1 and the sum at most 255, None otherwise; the sum never wraps.
C13_DenominatedMul ==
    (op = "DenominatedAmount::checked_mul") =>
        LET product == BigMul(den.amount, arg.amount)
            sum == den.denom + arg.denom
        IN  /\ ret = IF BigLe(product, UnsignedCeiling) /\ sum <= 255
                     THEN Some(DenominatedAmount_new(product, sum))
                     ELSE None
            /\ (ret # None => ret.val.denom = sum)
            /\ (den = DenominatedAmount_new(FromNat(10), 3)
                    /\ arg = DenominatedAmount_new(FromNat(10), 2)) =>
                   ret = Some(DenominatedAmount_new(FromNat(100), 5))

\* C13 witness: a product that fits 256 bits has been refused because the
\* denominations sum to more than 255
C13_Witness ==
    /\ op = "DenominatedAmount::checked_mul"
    /\ den.denom + arg.denom > 255
    /\ BigLe(BigMul(den.amount, arg.amount), UnsignedCeiling)
    /\ ret = None

\* the characters lo..hi of s are decimal digits
AllDigits(s, lo, hi) == \A i \in lo..hi : \E d \in 0..9 : s[i] = DigitChar(d)

\* s without its trailing fractional zeros and without a dangling point
StripFraction(s) ==
    IF \A i \in 1..Len(s) : s[i] # "." THEN s
    ELSE LET k == LastOther(s, "0", 1, Len(s))
         IN  IF s[k] = "." THEN SubSeq(s, 1, k - 1) ELSE SubSeq(s, 1, k)

\* C19: the precise string has no point at denomination 0 and otherwise at
\* least one integer digit, a point and exactly denom fractional digits; the
\* Display string is the precise string without trailing fractional zeros and
\* without a dangling point, and it is the precise string of the canonical
\* form.
C19_Formatting ==
    (op = "fmt") =>
        LET s == ret.precise
            n == Len(s)
        IN  /\ (den.denom = 0 => n >= 1 /\ AllDigits(s, 1, n))
            /\ (den.denom > 0 =>
                    /\ n >= den.denom + 2
                    /\ s[n - den.denom] = "."
                    /\ AllDigits(s, 1, n - den.denom - 1)
                    /\ AllDigits(s, n - den.denom + 1, n))
            /\ ret.display = StripFraction(s)
            /\ ret.display = to_string_precise(canonical(den))
            /\ (den = DenominatedAmount_new(FromNat(1120), 3) =>
                    ret.display = <<"1", ".", "1", "2">>)
            /\ (den = DenominatedAmount_new(BigZero, 6) => ret.display = <<"0">>)
            /\ (den = DenominatedAmount_new(FromNat(200), 0) =>
                    ret.display = <<"2", "0", "0">>)

\* C19 witness: 1120 at denom 3 has been written as 1.120 and as 1.12
C19_Witness ==
    /\ op = "fmt"
    /\ den = DenominatedAmount_new(FromNat(1120), 3)
    /\ ret.precise = <<"1", ".", "1", "2", "0">>
    /\ ret.display = <<"1", ".", "1", "2">>

\* C14: denominate at position p is the p-th 64-bit word of the magnitude,
\* floor(m / 2^(64 p)) mod 2^64; from_masp_denominated(w, p) is w * 2^(64 p),
\* with w in slot p and zero in the other slots; the sum over the four
\* positions of the digits put back gives the magnitude without overflow.
C14_MaspDigits ==
    /\ (op = "denominate") =>
           ret = BigMod(BigDiv(self, BigPow(WordBase, arg)), WordBase)
    /\ (op = "from_masp_denominated") =>
           /\ ret = BigMul(arg.val, BigPow(WordBase, arg.denom))
           /\ \A q \in 0..3 :
                  denominate(q, ret) = IF q = arg.denom THEN arg.val ELSE BigZero
    /\ (op = "recompose") => (pc = "done" /\ ret = self)

\* C14 witness: a magnitude with four non-zero words has been split and put
\* together again
C14_Witness ==
    /\ op = "recompose"
    /\ pc = "done"
    /\ \A q \in 0..3 : denominate(q, self) # BigZero
    /\ denominate(0, self) # denominate(3, self)
    /\ ret = self

\* the order of two strings of symbols of the base-32 alphabet as strings:
\* the digits come before the letters, as in ASCII
StrLess(s, t) ==
    \/ \E i \in 1..MinOf(Len(s), Len(t)) :
           /\ \A j \in 1..(i - 1) : s[j] = t[j]
           /\ SymbolValue(s[i]) < SymbolValue(t[i])
    \/ /\ Len(s) < Len(t)
       /\ \A j \in 1..Len(s) : s[j] = t[j]

RECURSIVE Base32Value(_, _, _)
\* the number written in base 32 by the symbols lo..hi of s
Base32Value(s, lo, hi) ==
    IF lo > hi THEN BigZero
    ELSE IF lo = hi THEN FromNat(SymbolValue(s[lo]))
    ELSE LET mid == (lo + hi) \div 2
         IN  BigAdd(BigMul(Base32Value(s, lo, mid), BigPow(FromNat(32), hi - mid)),
                    Base32Value(s, mid + 1, hi))

\* the amounts of the exploration with their key segments
KeyedSamples == { [amount |-> a, key |-> KeySeg_raw(a)] : a \in ConvertSamples }

\* C15: raw writes an Amount as its 32 big-endian bytes in unpadded base 32:
\* 52 symbols for every amount, the 256 bits followed by four zero bits;
\* a < b iff raw(a) < raw(b) as strings; parse(raw(a)) is Ok(a).
C15_KeySeg ==
    /\ (op = "KeySeg::raw") =>
           /\ Len(ret) = 52
           /\ Base32Value(ret, 1, 52) = BigMul(self, FromNat(16))
           /\ \A other \in KeyedSamples :
                  /\ Len(other.key) = Len(ret)
                  /\ BigLt(self, other.amount) <=> StrLess(ret, other.key)
                  /\ BigLt(other.amount, self) <=> StrLess(other.key, ret)
    /\ (op = "KeySeg::parse" /\ Len(arg) = 52
            /\ \E k \in KeyedSamples : k.amount = self /\ k.key = arg) =>
           (pc = "done" /\ ret = Ok(self))

\* C15 witness: the key segment of an amount that fills all four words has
\* been parsed back
C15_Witness ==
    /\ op = "KeySeg::parse"
    /\ pc = "done"
    /\ self = FromWords(FromNat(15), FromNat(16), FromNat(17), FromNat(18))
    /\ Len(arg) = 52
    /\ ret = Ok(self)

\* the smallest integer that is at least a * rate, for a rate of 12
\* fractional digits held as rate * 10^12
CeilOfProduct(a, rate) ==
    LET product == BigMul(a, rate)
        q == BigDiv(product, BigPow10(12))
    IN  IF BigMul(q, BigPow10(12)) = product THEN q ELSE BigAdd(q, BigOne)

\* C16: mul_ceil of any Amount by any non-negative rate returns the smallest
\* integer that is at least amount * rate; it panics only for a negative
\* rate; 1, 2 and 3 times 0.34 give 1, 1 and 2.
C16_MulCeil ==
    (op = "mul_ceil") =>
        IF I256_is_negative(arg)
        THEN pc = "panicked"
        ELSE /\ pc = "done"
             /\ ret = CeilOfProduct(self, arg)

\* C16 where amount * rate * 10^12 fits 256 bits
C16_MulCeilWithinRange ==
    (op = "mul_ceil" /\ BigLe(BigMul(self, I256_abs(arg)), UnsignedCeiling)) => C16_MulCeil

\* C17: deserializing an Amount or a DenominatedAmount from a string never
\* panics; a string that fails the format rules of the parser gives an error
\* value; deserialize(serialize(v)) is v for every Amount and every
\* DenominatedAmount.
C17_Serde ==
    /\ (op \in {"Amount::deserialize", "DenominatedAmount::deserialize"}) =>
           /\ pc = "done"
           /\ ~(WellFormed(arg) /\ DigitCount(arg) <= 77) => ~ret.ok
    /\ (op = "Amount::deserialize(serialize)") =>
           /\ arg = Uint_to_string(self)
           /\ pc = "done"
           /\ ret = Ok(self)
    /\ (op = "DenominatedAmount::deserialize(serialize)") =>
           /\ arg = to_string_precise(den)
           /\ pc = "done"
           /\ ret = Ok(den)

\* C17 for DenominatedAmount and strings that are not empty: a malformed
\* string gives an error value
C17_DenominatedRejects ==
    (op = "DenominatedAmount::deserialize" /\ arg # << >>) =>
        /\ pc = "done"
        /\ ~(WellFormed(arg) /\ DigitCount(arg) <= 77) => ~ret.ok

\* the magnitude of a change held as its 256 bits
Magnitude(c) ==
    IF BigLe(c, SignedCeiling) THEN c ELSE BigSub(BigAdd(UnsignedCeiling, BigOne), c)

\* C18: Amount to Change panics exactly when the magnitude is above 2^255-1
\* and otherwise gives the non-negative change of that magnitude; Change to
\* Amount gives the absolute value, so c and -c give the same Amount, and
\* Amount::from(Change::from(a)) is a for every a up to 2^255-1.
C18_ChangeConversion ==
    /\ (op \in {"change", "Change::from"}) =>
           IF BigLe(self, SignedCeiling)
           THEN pc = "done" /\ ret = self /\ ~I256_is_negative(ret)
           ELSE pc = "panicked"
    /\ (op \in {"from_change", "Amount::from"}) =>
           /\ ret = Magnitude(arg)
           /\ ret = from_change(I256_neg(arg))
           /\ ret = Amount_from(I256_neg(arg))
    /\ (op = "Amount::from(Change::from)" /\ BigLe(self, SignedCeiling)) =>
           (pc = "done" /\ ret = self)

\* C18 witness: the conversion of 2^255 to a Change has panicked
C18_Witness ==
    /\ op = "change"
    /\ pc = "panicked"
    /\ self = BigAdd(SignedCeiling, BigOne)

\* C20: receive panics whenever the sum would exceed 2^255-1, so a balance
\* that was at most 2^255-1 is at most 2^255-1 after receive.
C20_ReceiveSignedCeiling ==
    [][(op' = "receive" /\ BigLe(self, SignedCeiling)) =>
           /\ BigLe(self', SignedCeiling)
           /\ (~BigLe(BigAdd(self, arg'), SignedCeiling) => pc' = "panicked")]_vars

RECURSIVE SumFrom(_, _)
\* the sum of the balances from position i on, as an integer of any size
SumFrom(b, i) ==
    IF i > Len(b) THEN BigZero
    ELSE IF i = Len(b) THEN b[i]
    ELSE BigAdd(b[i], SumFrom(b, i + 1))

SumOf(b) == SumFrom(b, 1)

====
